---- MODULE Spec2Model ----
(***************************************************************************)
(* The fetch pipeline of SteamWorkshop-MOD-get: DownloadThread.run, the     *)
(* metadata resolver get_app_info, the process controller download_mod,    *)
(* the relocation move_and_rename_mod_folder, and the foreground handlers   *)
(* prompt_for_app_info, closeEvent and the handlers of the settings menu,  *)
(* as one state machine.                                                   *)
(*                                                                         *)
(* Strings are sequences of one-character strings; Python's None is the    *)
(* one-element sequence None, which is no string of the program.           *)
(***************************************************************************)
EXTENDS Integers, Sequences, FiniteSets, TLC

\* ------------------------------------------------------------------ bounds
MaxItems == 2
MaxLines == 1
\* Longest output text handed to analyze_steamcmd_output on its own.
MaxText == 4

\* ----------------------------------------------------------------- strings
None == <<"None">>

Truthy(x) == x # None /\ x # <<>>

Digits == {"0", "1", "2", "3", "4", "5", "6", "7", "8", "9"}

Whitespace == {" "}

Min(S) == CHOOSE x \in S : \A y \in S : x <= y

Max(S) == CHOOSE x \in S : \A y \in S : x >= y

\* str.strip(): the string without its leading and trailing whitespace.
strip(s) ==
    LET keep == {i \in 1..Len(s) : s[i] \notin Whitespace}
    IN  IF keep = {} THEN <<>> ELSE SubSeq(s, Min(keep), Max(keep))

MatchAt(s, p, pat) ==
    /\ p + Len(pat) - 1 <= Len(s)
    /\ \A k \in 1..Len(pat) : s[p + k - 1] = pat[k]

\* The maximal run of digits of s that starts at position p.
DigitRun(s, p) ==
    LET stop == {q \in p..Len(s) : s[q] \notin Digits}
        last == IF stop = {} THEN Len(s) ELSE Min(stop) - 1
    IN  SubSeq(s, p, last)

\* re.search(pat + r'(\d+)', s): group 1 of the leftmost match, or None.
SearchDigitsAfter(pat, s) ==
    LET P == {p \in 1..Len(s) :
                /\ MatchAt(s, p, pat)
                /\ p + Len(pat) <= Len(s)
                /\ s[p + Len(pat)] \in Digits}
    IN  IF P = {} THEN None ELSE DigitRun(s, Min(P) + Len(pat))

IdPattern == <<"i", "d", "=">>

AppPattern == <<"/", "a", "p", "p", "/">>

\* get_mod_id with the pattern id=(\d): the first digit alone.
get_mod_id_FirstDigitOnly(mod_url) ==
    LET found == SearchDigitsAfter(IdPattern, mod_url)
    IN  IF found = None THEN None ELSE SubSeq(found, 1, 1)

get_mod_id(mod_url) == SearchDigitsAfter(IdPattern, mod_url)

UnknownGame == <<"U", "n", "k", "n", "o", "w", "n", "G", "a", "m", "e">>

ModPrefix == <<"M", "o", "d", "_">>

\* ------------------------------------------------------------- input sets
U_NoId == <<"w", "?", "i", "d", "=">>

U_Id == <<"?", "i", "d", "=", "7">>

U_AppId == <<"/", "a", "p", "p", "/", "4", "?", "i", "d", "=", "7">>

\* start_download hands over stripped, non-empty lines.
Urls == {U_NoId, U_Id, U_AppId}

UrlLists == UNION {[1..n -> Urls] : n \in 1..MaxItems}

\* What the item page holds: the text of the application-name element, the
\* content of the og:url meta element and the text of the title element
\* (None: the element is absent), or a failed request.
PageContents ==
    [status : {"ok"},
     appName : {None, <<>>, <<"G">>},
     ogUrl : {None, <<"/", "a", "p", "p", "/", "4">>},
     title : {None, <<>>, <<"T">>}]

PageError == [status |-> "error", appName |-> None, ogUrl |-> None, title |-> None]

PageResponses == PageContents \cup {PageError}

\* What the remote API answers: a failed request or a body that is no JSON
\* ("error"), a body without response.publishedfiledetails ("malformed"), an
\* empty detail list ("empty"), or one detail record whose fields may be absent.
ApiRecords ==
    [status : {"record"},
     consumer_app_id : {None, <<"4">>},
     title : {None, <<>>, <<"T">>}]

ApiFailure(kind) == [status |-> kind, consumer_app_id |-> None, title |-> None]

ApiResponses == ApiRecords \cup {ApiFailure(k) : k \in {"error", "malformed", "empty"}}

\* What the user may type into the two dialogs of the metadata prompt.
HumanAppIds == {<<"5">>}

HumanModNames == {<<"H">>}

\* What the user may type into the two-factor dialog.
GuardCodes == {<<"9">>}

\* Output lines of the external tool, as the fragments a substring test sees.
PlainLine == <<"Downloading item">>

GuardLine == <<"Steam Guard", "code">>

OutputLines == {PlainLine, GuardLine}

ExitCodes == {0, 1, 6, 7}

\* ------------------------------------------------------- metadata resolver
NoInfo == [app_id |-> None, game_name |-> None, mod_name |-> None]

\* get_app_info, method 1: the locals app_id, game_name and mod_name after the
\* page has been fetched and parsed; they keep their initial None when the
\* request raises.
PageTier(mod_url, mid, page) ==
    IF page.status # "ok" THEN NoInfo
    ELSE LET fromUrl == SearchDigitsAfter(AppPattern, mod_url)
         IN  [app_id |-> IF fromUrl # None THEN fromUrl
                         ELSE IF page.ogUrl # None
                              THEN SearchDigitsAfter(AppPattern, page.ogUrl)
                              ELSE None,
              game_name |-> IF page.appName # None THEN page.appName ELSE UnknownGame,
              mod_name |-> IF page.title # None THEN page.title ELSE ModPrefix \o mid]

\* The test that ends get_app_info after method 1.
PageTierSucceeds(info) ==
    Truthy(info.app_id) /\ Truthy(info.game_name) /\ Truthy(info.mod_name)

\* Method 2 with the game name of method 1 kept when there is one.
ApiTier_KeepsPageGameName(mid, before, api) ==
    IF api.status # "record" THEN NoInfo
    ELSE LET after ==
                 [app_id |-> IF api.consumer_app_id # None
                             THEN api.consumer_app_id ELSE <<>>,
                  game_name |-> IF Truthy(before.game_name)
                                THEN before.game_name ELSE UnknownGame,
                  mod_name |-> IF api.title # None THEN api.title ELSE ModPrefix \o mid]
         IN  IF Truthy(after.app_id) /\ Truthy(after.mod_name) THEN after ELSE NoInfo

\* Method 2 without the default for an absent title.
ApiTier_NoTitleDefault(mid, before, api) ==
    IF api.status # "record" THEN NoInfo
    ELSE LET after ==
                 [app_id |-> IF api.consumer_app_id # None
                             THEN api.consumer_app_id ELSE <<>>,
                  game_name |-> UnknownGame,
                  mod_name |-> api.title]
         IN  IF Truthy(after.app_id) /\ Truthy(after.mod_name) THEN after ELSE NoInfo

\* get_app_info, method 2: what get_app_info returns once method 1 has failed
\* with the locals `before`.
ApiTier(mid, before, api) ==
    IF api.status # "record" THEN NoInfo
    ELSE LET after ==
                 [app_id |-> IF api.consumer_app_id # None
                             THEN api.consumer_app_id ELSE <<>>,
                  game_name |-> UnknownGame,
                  mod_name |-> IF api.title # None THEN api.title ELSE ModPrefix \o mid]
         IN  IF Truthy(after.app_id) /\ Truthy(after.mod_name) THEN after ELSE NoInfo

\* DownloadThread.run: whether the result of get_app_info needs the prompt.
NeedsPrompt(info) ==
    ~Truthy(info.app_id) \/ ~Truthy(info.game_name) \/ ~Truthy(info.mod_name)

\* ------------------------------------------------------ process controller
\* The output text is the list of the lines read; a line is the list of the
\* fragments it holds. A signature lies within one line.
TextContains(output_text, signature) ==
    \E i \in 1..Len(output_text) : \E k \in 1..Len(output_text[i]) :
        output_text[i][k] = signature

\* analyze_steamcmd_output with its first two tests in the other order.
analyze_steamcmd_output_PasswordFirst(output_text) ==
    IF TextContains(output_text, "Invalid Password")
    THEN "suggestion_invalid_password"
    ELSE IF TextContains(output_text, "No subscription")
    THEN "suggestion_no_subscription"
    ELSE IF TextContains(output_text, "Too many login failures")
    THEN "suggestion_too_many_failures"
    ELSE IF /\ TextContains(output_text, "Logged in OK")
            /\ TextContains(output_text, "Downloading item")
            /\ TextContains(output_text, "ERROR!")
    THEN "suggestion_private_or_removed_mod"
    ELSE IF \/ TextContains(output_text, "Invalid AuthCode")
            \/ TextContains(output_text, "Two-factor code mismatch")
    THEN "suggestion_invalid_steam_guard_code"
    ELSE "suggestion_general_failure"

\* analyze_steamcmd_output: the key of the hint for an output text.
analyze_steamcmd_output(output_text) ==
    IF TextContains(output_text, "No subscription")
    THEN "suggestion_no_subscription"
    ELSE IF TextContains(output_text, "Invalid Password")
    THEN "suggestion_invalid_password"
    ELSE IF TextContains(output_text, "Too many login failures")
    THEN "suggestion_too_many_failures"
    ELSE IF /\ TextContains(output_text, "Logged in OK")
            /\ TextContains(output_text, "Downloading item")
            /\ TextContains(output_text, "ERROR!")
    THEN "suggestion_private_or_removed_mod"
    ELSE IF \/ TextContains(output_text, "Invalid AuthCode")
            \/ TextContains(output_text, "Two-factor code mismatch")
    THEN "suggestion_invalid_steam_guard_code"
    ELSE "suggestion_general_failure"

Contains(line, fragment) == \E k \in 1..Len(line) : line[k] = fragment

\* The two-factor prompt test of download_mod.
GuardMatch(line) == Contains(line, "Steam Guard") /\ Contains(line, "code")

SuccessCodes == {0, 6, 7}

\* The classification with exit code 0 alone as success.
ExitSuccess_ZeroOnly(code) == code = 0

ExitSuccess(code) == code \in SuccessCodes

\* ------------------------------------------------------ relocation manager
Unsafe == {"/", ":", "*", "?", "\"", "<", ">", "|"}

Sanitize(s) == [k \in 1..Len(s) |-> IF s[k] \in Unsafe THEN "_" ELSE s[k]]

DestName(gname, mname) ==
    <<"[">> \o Sanitize(gname) \o <<"&">> \o Sanitize(mname) \o <<"]">>

\* ------------------------------------------------------------ orchestrator
\* int((completed / total) * 100) in double arithmetic: the pairs up to a
\* total of 100 where the product falls just below the exact value.
FloatShortfall == {<<29, 50>>, <<29, 100>>, <<57, 100>>, <<58, 100>>}

\* The percentage of what is left to do instead of what is done.
ProgressPercent_OfRemaining(completed, total) ==
    (100 * (total - completed)) \div total

ProgressPercent(completed, total) ==
    IF <<completed, total>> \in FloatShortfall
    THEN (100 * completed) \div total - 1
    ELSE (100 * completed) \div total

\* ---------------------------------------------------------------- settings
\* The words of the settings and of the command line, each one a string of the
\* program taken as a whole. The key 'language' selects the texts of the user
\* interface only and is left out.
Anonymous == <<"anonymous">>

DEFAULT_SETTINGS ==
    [download_method |-> "SteamCMD",
     steam_username |-> Anonymous,
     steam_password |-> <<>>,
     login_method |-> "anonymous"]

\* What the user may type into the two dialogs of set_steam_credentials.
TypedUsernames == {<<>>, <<" ">>, <<"u", " ">>}

TypedPasswords == {<<>>, <<" ">>, <<"p">>}

\* self.steamcmd_executable, as check_and_install_steamcmd returned it.
steamcmd_executable == <<"steamcmd">>

\* The command with the account's password left out.
Command_AccountWithoutPassword(settings, app, mid) ==
    <<steamcmd_executable, <<"+login">>>>
    \o (IF settings.login_method = "account"
        THEN <<settings.steam_username>>
        ELSE <<Anonymous>>)
    \o <<<<"+workshop_download_item">>, app, mid, <<"+quit">>>>

\* The command without the word that makes the tool leave after the fetch.
Command_WithoutQuit(settings, app, mid) ==
    <<steamcmd_executable, <<"+login">>>>
    \o (IF settings.login_method = "account"
        THEN <<settings.steam_username, settings.steam_password>>
        ELSE <<Anonymous>>)
    \o <<<<"+workshop_download_item">>, app, mid>>

\* The command list of download_mod.
Command(settings, app, mid) ==
    <<steamcmd_executable, <<"+login">>>>
    \o (IF settings.login_method = "account"
        THEN <<settings.steam_username, settings.steam_password>>
        ELSE <<Anonymous>>)
    \o <<<<"+workshop_download_item">>, app, mid, <<"+quit">>>>

\* ------------------------------------------------------------------- state
VARIABLES
    SETTINGS,              \* the global settings dict
    CONFIG_FILE,           \* the [Settings] section of config.ini
    mod_urls,              \* DownloadThread.mod_urls
    pc,                    \* position of the background task in run
    index,                 \* position in mod_urls of the current WorkItem
    interruptionRequested, \* QThread's interruption flag
    mod_id, app_id, game_name, mod_name,  \* locals of run (and of get_app_info)
    response,              \* the dict handed to the foreground with prompt_signal
    promptQueued,          \* prompt_signal emitted, its slot not yet run
    fg,                    \* position of the foreground in prompt_for_app_info
    procs,                 \* the external process spawned for each WorkItem
    procOut,               \* lines the current process wrote, not yet read
    linesWritten,          \* number of lines the current process has written
    returncode,            \* exit code of the current process
    steamcmd_output,       \* download_mod's accumulated output
    command,               \* download_mod's local: the command list
    code,                  \* download_mod's local: the text of the two-factor dialog
    stdin,                 \* what download_mod has written to the process's input
    details,               \* get_app_info's local: what the remote API answered
    suggestion,            \* download_mod's local: the hint of analyze_steamcmd_output
    srcDirs,               \* the tool's output directories, by <<app id, mod id>>
    destDirs,              \* the destination directories, by name
    completed_mods,        \* run's counter
    progress,              \* values emitted on progress_signal
    finished, stopped,     \* finished_signal, stopped_signal emitted
    outcome,               \* how run left its loop
    exception,             \* what the handler of run caught
    started,               \* WorkItems the loop has begun to process
    pageFetched, apiQueried, \* network calls made for the current WorkItem
    window                 \* the MainWindow: its controls, slots and close event

vars == <<SETTINGS, CONFIG_FILE, mod_urls, pc, index, interruptionRequested, mod_id, app_id,
          game_name, mod_name, response, promptQueued, fg, procs, procOut,
          linesWritten, returncode, steamcmd_output, command, code, stdin,
          suggestion, details, srcDirs, destDirs,
          completed_mods, progress, finished, stopped, outcome, exception,
          started, pageFetched, apiQueried, window>>

EmptyResponse == [cancelled |-> FALSE, app_id |-> None, mod_name |-> None]

\* The MainWindow once start_download has created and started the thread:
\* disable_inputs has disabled the start control; no signal of the thread has
\* been handled; cleanup_and_exit is not connected; no close event was seen.
\*   start_button     the enabled flag of the start control
\*   enabled          the enabled flag of the window itself (setEnabled)
\*   handled          the signals of self.thread whose slots have been run
\*   earlier_running  threads that self.thread replaced while they were still
\*                    executing run (before their stopped_signal)
\*   earlier_queued   stopped_signals of replaced threads whose slot
\*                    cleanup_after_thread has not been run yet
\*   exit_slot        whether stopped_signal is connected to cleanup_and_exit,
\*                    and whether that was done after the signal had gone
\*   reply            the last answer to the question of closeEvent
\*   accepted         a close event was accepted
\*   quit             QApplication.quit() was called
\*   threads          DownloadThreads created so far
StartedWindow ==
    [start_button |-> FALSE, enabled |-> TRUE, handled |-> {},
     earlier_running |-> 0, earlier_queued |-> 0,
     exit_slot |-> "unconnected", reply |-> "none", accepted |-> FALSE,
     quit |-> FALSE, threads |-> 1]


Init ==
    /\ SETTINGS = DEFAULT_SETTINGS
    /\ window = StartedWindow
    /\ CONFIG_FILE = DEFAULT_SETTINGS
    /\ mod_urls \in UrlLists
    /\ pc = "start"
    /\ index = 1
    /\ interruptionRequested = FALSE
    /\ mod_id = None /\ app_id = None /\ game_name = None /\ mod_name = None
    /\ response = EmptyResponse
    /\ promptQueued = FALSE
    /\ fg = "idle"
    /\ procs = {}
    /\ procOut = <<>>
    /\ linesWritten = 0
    /\ returncode = <<>>
    /\ steamcmd_output = <<>>
    /\ command = <<>>
    /\ code = None /\ stdin = <<>>
    /\ suggestion = None
    /\ details = ApiFailure("none")
    /\ srcDirs = {}
    /\ destDirs = {}
    /\ completed_mods = 0
    /\ progress = <<>>
    /\ finished = FALSE /\ stopped = FALSE
    /\ outcome = "running"
    /\ exception = "none"
    /\ started = {}
    /\ pageFetched = 0 /\ apiQueried = 0

\* --------------------------------------------------------------- helpers
\* Finite maps (the process table, the directories) as sets of key-value pairs.
Keys(m) == {e.key : e \in m}

Get(m, key) == (CHOOSE e \in m : e.key = key).val

Remove(m, key) == {e \in m : e.key # key}

Put(m, key, val) == Remove(m, key) \cup {[key |-> key, val |-> val]}

\* The WorkItems whose external process is alive.
Running == Keys(procs)

\* The stripped URL of the current WorkItem.
CurrentUrl == strip(mod_urls[index])

\* The locals of the current iteration, dead once run has left its loop.
ClearLocals ==
    /\ mod_id' = None /\ app_id' = None /\ game_name' = None /\ mod_name' = None
    /\ pageFetched' = 0 /\ apiQueried' = 0
    /\ procOut' = <<>> /\ linesWritten' = 0 /\ returncode' = <<>>
    /\ steamcmd_output' = <<>> /\ command' = <<>>
    /\ code' = None /\ stdin' = <<>> /\ suggestion' = None
    /\ details' = ApiFailure("none")

\* `continue`, and the end of an iteration: on to the next WorkItem. The locals
\* of the finished iteration are dead and are cleared.
NextItem ==
    /\ pc' = "loop_head"
    /\ index' = index + 1
    /\ ClearLocals

\* What no step of run's own control flow touches.
RunFrame ==
    UNCHANGED <<SETTINGS, CONFIG_FILE, window, mod_urls, interruptionRequested, fg,
                procs, srcDirs, destDirs, completed_mods, progress, finished, stopped, started>>

ItemLocalsUnchanged ==
    UNCHANGED <<index, mod_id, app_id, game_name, mod_name, pageFetched,
                apiQueried, procOut, linesWritten, returncode, steamcmd_output, command, code, stdin, suggestion, details>>

\* An exception that reaches the handler of run.
Raise(what) ==
    /\ pc' = "except" /\ outcome' = "Exception" /\ exception' = what
    /\ ClearLocals /\ UNCHANGED index

\* `break`: run leaves its loop on an interruption request.
Break ==
    /\ pc' = "emit_finished" /\ outcome' = "Cancelled"
    /\ ClearLocals /\ UNCHANGED <<index, exception>>

\* ------------------------------------------------- DownloadThread.run
\* setup_logging and check_and_install_steamcmd: the executable is there, or
\* the bootstrap raises, or it ends the task with sys.exit.
Bootstrap ==
    /\ pc = "start"
    /\ \E result \in {"ok", "raises", "exit"} :
          CASE result = "ok" ->
                 /\ pc' = "loop_head"
                 /\ ItemLocalsUnchanged /\ UNCHANGED <<outcome, exception>>
            [] result = "raises" -> Raise("bootstrap")
            [] result = "exit" ->
                 /\ pc' = "finally" /\ outcome' = "Exit"
                 /\ ItemLocalsUnchanged /\ UNCHANGED exception
    /\ UNCHANGED <<response, promptQueued>>
    /\ RunFrame

\* The loop head without its interruption test.
LoopHead_NoInterruptionTest ==
    /\ pc = "loop_head"
    /\ IF index > Len(mod_urls)
       THEN /\ pc' = "emit_finished" /\ outcome' = "Completed"
            /\ ItemLocalsUnchanged
            /\ UNCHANGED <<started, exception>>
       ELSE /\ pc' = "get_mod_id"
            /\ started' = started \cup {index}
            /\ UNCHANGED <<outcome, exception>>
            /\ ItemLocalsUnchanged
    /\ UNCHANGED <<SETTINGS, CONFIG_FILE, window>>
    /\ UNCHANGED <<mod_urls, interruptionRequested, response,
                   promptQueued, fg, procs, srcDirs, destDirs, completed_mods,
                   progress, finished, stopped>>

\* The loop head: the end of the list, the interruption test, the blank line.
LoopHead ==
    /\ pc = "loop_head"
    /\ IF index > Len(mod_urls)
       THEN /\ pc' = "emit_finished" /\ outcome' = "Completed"
            /\ ItemLocalsUnchanged
            /\ UNCHANGED <<started, exception>>
       ELSE IF interruptionRequested
       THEN Break /\ UNCHANGED started
       ELSE IF CurrentUrl = <<>>
       THEN /\ index' = index + 1
            /\ UNCHANGED <<pc, outcome, exception, started, mod_id, app_id, game_name,
                           mod_name, pageFetched, apiQueried, procOut,
                           linesWritten, returncode, steamcmd_output, command, code, stdin, suggestion, details>>
       ELSE /\ pc' = "get_mod_id"
            /\ started' = started \cup {index}
            /\ UNCHANGED <<outcome, exception>>
            /\ ItemLocalsUnchanged
    /\ UNCHANGED <<SETTINGS, CONFIG_FILE, window>>
    /\ UNCHANGED <<mod_urls, interruptionRequested, response,
                   promptQueued, fg, procs, srcDirs, destDirs, completed_mods,
                   progress, finished, stopped>>

\* mod_id = get_mod_id(mod_url); no identifier: continue.
ExtractId ==
    /\ pc = "get_mod_id"
    /\ IF get_mod_id(CurrentUrl) = None
       THEN NextItem
       ELSE /\ mod_id' = get_mod_id(CurrentUrl)
            /\ pc' = "page_tier"
            /\ UNCHANGED <<index, app_id, game_name, mod_name, pageFetched,
                           apiQueried, procOut, linesWritten, returncode,
                           steamcmd_output, command, code, stdin, suggestion, details>>
    /\ UNCHANGED <<SETTINGS, CONFIG_FILE, window>>
    /\ UNCHANGED <<mod_urls, interruptionRequested, response,
                   promptQueued, fg, procs, srcDirs, destDirs, completed_mods,
                   progress, finished, stopped, outcome, exception, started>>

\* The page tier with a second GET after a first one that did not succeed.
PageParse_RetryOnce ==
    /\ pc = "page_tier"
    /\ \E page \in PageResponses :
          LET info == PageTier(CurrentUrl, mod_id, page)
          IN  /\ app_id' = info.app_id
              /\ game_name' = info.game_name
              /\ mod_name' = info.mod_name
              /\ pc' = IF PageTierSucceeds(info) THEN "info_done"
                       ELSE IF pageFetched = 0 THEN "page_tier"
                       ELSE "api_tier"
    /\ pageFetched' = pageFetched + 1
    /\ UNCHANGED <<SETTINGS, CONFIG_FILE, window>>
    /\ UNCHANGED <<mod_urls, interruptionRequested, response,
                   promptQueued, fg, procs, srcDirs, destDirs, completed_mods,
                   progress, finished, stopped, outcome, exception, started, index, mod_id,
                   apiQueried, procOut, linesWritten, returncode, steamcmd_output, command, code, stdin, suggestion, details>>

\* get_app_info, method 1: one GET of the item page.
PageParse ==
    /\ pc = "page_tier"
    /\ \E page \in PageResponses :
          LET info == PageTier(CurrentUrl, mod_id, page)
          IN  /\ app_id' = info.app_id
              /\ game_name' = info.game_name
              /\ mod_name' = info.mod_name
              /\ pc' = IF PageTierSucceeds(info) THEN "info_done" ELSE "api_tier"
    /\ pageFetched' = pageFetched + 1
    /\ UNCHANGED <<SETTINGS, CONFIG_FILE, window>>
    /\ UNCHANGED <<mod_urls, interruptionRequested, response,
                   promptQueued, fg, procs, srcDirs, destDirs, completed_mods,
                   progress, finished, stopped, outcome, exception, started, index, mod_id,
                   apiQueried, procOut, linesWritten, returncode, steamcmd_output, command, code, stdin, suggestion, details>>

\* get_app_info, method 2: one POST to the remote API.
ApiQuery ==
    /\ pc = "api_tier"
    /\ \E api \in ApiResponses :
          LET info == ApiTier(mod_id,
                              [app_id |-> app_id, game_name |-> game_name,
                               mod_name |-> mod_name], api)
          IN  /\ app_id' = info.app_id
              /\ game_name' = info.game_name
              /\ mod_name' = info.mod_name
              /\ details' = api
    /\ apiQueried' = apiQueried + 1
    /\ pc' = "info_done"
    /\ UNCHANGED <<SETTINGS, CONFIG_FILE, window>>
    /\ UNCHANGED <<mod_urls, interruptionRequested, response,
                   promptQueued, fg, procs, srcDirs, destDirs, completed_mods,
                   progress, finished, stopped, outcome, exception, started, index, mod_id,
                   pageFetched, procOut, linesWritten, returncode, steamcmd_output, command, code, stdin, suggestion>>

\* run, after get_app_info has returned: prompt when the result is incomplete.
\* prompt_user_for_app_info starts with a fresh dict and emits prompt_signal.
AfterInfo ==
    /\ pc = "info_done"
    /\ IF NeedsPrompt([app_id |-> app_id, game_name |-> game_name,
                       mod_name |-> mod_name])
       THEN /\ response' = EmptyResponse
            /\ promptQueued' = TRUE
            /\ pc' = "poll_check"
       ELSE /\ pc' = "chk_fetch"
            /\ UNCHANGED <<response, promptQueued>>
    /\ UNCHANGED <<SETTINGS, CONFIG_FILE, window>>
    /\ UNCHANGED <<mod_urls, interruptionRequested, fg, procs, srcDirs,
                   destDirs, completed_mods, progress, finished, stopped,
                   outcome, exception, started>>
    /\ details' = ApiFailure("none")
    /\ UNCHANGED <<index, mod_id, app_id, game_name, mod_name, pageFetched,
                   apiQueried, procOut, linesWritten, returncode,
                   steamcmd_output, command, code, stdin, suggestion>>

\* The condition of the poll loop of prompt_user_for_app_info.
PollCheck ==
    /\ pc = "poll_check"
    /\ pc' = IF response.app_id = None /\ ~interruptionRequested
             THEN "poll_sleep" ELSE "poll_exit"
    /\ UNCHANGED <<SETTINGS, CONFIG_FILE, window>>
    /\ UNCHANGED <<mod_urls, interruptionRequested, response,
                   promptQueued, fg, procs, srcDirs, destDirs, completed_mods,
                   progress, finished, stopped, outcome, exception, started>>
    /\ ItemLocalsUnchanged

\* msleep(100) in the poll loop.
PollSleep ==
    /\ pc = "poll_sleep"
    /\ pc' = "poll_check"
    /\ UNCHANGED <<SETTINGS, CONFIG_FILE, window>>
    /\ UNCHANGED <<mod_urls, interruptionRequested, response,
                   promptQueued, fg, procs, srcDirs, destDirs, completed_mods,
                   progress, finished, stopped, outcome, exception, started>>
    /\ ItemLocalsUnchanged

\* After the poll loop, with run leaving game_name as get_app_info returned it.
PollExit_KeepsGameName ==
    /\ pc = "poll_exit"
    /\ IF response.cancelled
       THEN /\ NextItem
            /\ response' = EmptyResponse
            /\ UNCHANGED <<outcome, exception>>
       ELSE IF response.app_id = None
       THEN Raise("KeyError app_id") /\ UNCHANGED response
       ELSE IF response.mod_name = None
       THEN Raise("KeyError mod_name") /\ UNCHANGED response
       ELSE /\ app_id' = response.app_id
            /\ mod_name' = response.mod_name
            /\ pc' = "chk_fetch"
            /\ response' = EmptyResponse
            /\ UNCHANGED <<outcome, exception, index, mod_id, game_name,
                           pageFetched, apiQueried, procOut, linesWritten,
                           returncode, steamcmd_output, command, code, stdin, suggestion, details>>
    /\ UNCHANGED promptQueued
    /\ RunFrame

\* After the poll loop: None for a declined prompt, else the two entries of
\* the dict (a KeyError for an entry that is not there), and run's use of them.
\* The dict is a local of prompt_user_for_app_info and is gone on its return.
PollExit ==
    /\ pc = "poll_exit"
    /\ IF response.cancelled
       THEN /\ NextItem
            /\ response' = EmptyResponse
            /\ UNCHANGED <<outcome, exception>>
       ELSE IF response.app_id = None
       THEN Raise("KeyError app_id") /\ UNCHANGED response
       ELSE IF response.mod_name = None
       THEN Raise("KeyError mod_name") /\ UNCHANGED response
       ELSE /\ app_id' = response.app_id
            /\ mod_name' = response.mod_name
            /\ game_name' = UnknownGame
            /\ pc' = "chk_fetch"
            /\ response' = EmptyResponse
            /\ UNCHANGED <<outcome, exception, index, mod_id, pageFetched,
                           apiQueried, procOut, linesWritten, returncode,
                           steamcmd_output, command, code, stdin, suggestion, details>>
    /\ UNCHANGED promptQueued
    /\ RunFrame

\* The interruption test before the fetch.
CheckBeforeFetch ==
    /\ pc = "chk_fetch"
    /\ IF interruptionRequested
       THEN Break
       ELSE pc' = "dl_prep" /\ UNCHANGED <<outcome, exception>> /\ ItemLocalsUnchanged
    /\ UNCHANGED <<response, promptQueued>>
    /\ RunFrame

\* ------------------------------------------------------------ download_mod
\* Before the try block: os.chmod on the executable (which may raise), the
\* command and the log line.
DownloadPrepare ==
    /\ pc = "dl_prep"
    /\ \E chmod \in {"ok", "raises"} :
          IF chmod = "raises"
          THEN Raise("chmod")
          ELSE /\ command' = Command(SETTINGS, app_id, mod_id)
               /\ pc' = "dl_spawn"
               /\ UNCHANGED <<outcome, exception>>
               /\ UNCHANGED <<index, mod_id, app_id, game_name, mod_name,
                              pageFetched, apiQueried, procOut, linesWritten,
                              returncode, steamcmd_output, code, stdin,
                              suggestion, details>>
    /\ UNCHANGED <<response, promptQueued>>
    /\ RunFrame

\* subprocess.Popen(command, ...) inside the try block: a failure to spawn is
\* caught and download_mod returns False. The command list is not used after
\* the call.
Spawn ==
    /\ pc = "dl_spawn"
    /\ \E popen \in {"ok", "raises"} :
          IF popen = "raises"
          THEN NextItem /\ UNCHANGED procs
          ELSE /\ procs' = Put(procs, index,
                                [app_id |-> app_id, mod_id |-> mod_id])
               /\ pc' = "dl_loop"
               /\ command' = <<>>
               /\ UNCHANGED <<index, mod_id, app_id, game_name, mod_name,
                              pageFetched, apiQueried, procOut, linesWritten,
                              returncode, steamcmd_output, code, stdin,
                              suggestion, details>>
    /\ UNCHANGED <<SETTINGS, CONFIG_FILE, window>>
    /\ UNCHANGED <<mod_urls, interruptionRequested, response,
                   promptQueued, fg, srcDirs, destDirs, completed_mods,
                   progress, finished, stopped, outcome, exception, started>>

\* One iteration of the streaming loop. process.poll() ends the loop once the
\* process has exited, whatever it wrote that has not been read; otherwise
\* readline() blocks until a line is there (or the stream has ended, which
\* ends the loop as well). After the loop process.wait() returns at once and
\* process.returncode holds the exit code.
StreamIteration ==
    /\ pc = "dl_loop"
    /\ IF index \notin Running
       THEN /\ \E rc \in ExitCodes : returncode' = <<rc>>
            /\ pc' = "dl_classify"
            /\ procOut' = <<>> /\ linesWritten' = 0
            /\ UNCHANGED steamcmd_output
       ELSE /\ procOut # <<>>
            /\ procOut' = Tail(procOut)
            /\ steamcmd_output' = Append(steamcmd_output, Head(procOut))
            /\ pc' = IF GuardMatch(Head(procOut)) THEN "dl_guard" ELSE "dl_loop"
            /\ UNCHANGED <<linesWritten, returncode>>
    /\ UNCHANGED <<SETTINGS, CONFIG_FILE, window>>
    /\ UNCHANGED <<mod_urls, interruptionRequested, response, promptQueued, fg,
                   procs, srcDirs, destDirs, completed_mods, progress,
                   finished, stopped, outcome, exception, started, index, mod_id,
                   app_id, game_name, mod_name, pageFetched, apiQueried,
                   command, code, stdin, suggestion, details>>

\* The two-factor prompt: QInputDialog.getText called by download_mod itself,
\* on the thread download_mod runs on. The dialog returns the text typed, or
\* the empty text when it is dismissed.
StreamGuard ==
    /\ pc = "dl_guard"
    /\ \E text \in GuardCodes \cup {<<>>} : code' = text
    /\ pc' = "dl_answer"
    /\ UNCHANGED <<index, mod_id, app_id, game_name, mod_name, pageFetched,
                   apiQueried, procOut, linesWritten, returncode,
                   steamcmd_output, command, stdin, suggestion, details>>
    /\ UNCHANGED <<response, promptQueued, outcome, exception>>
    /\ RunFrame

\* The answer to the two-factor dialog, with no process.kill() on a decline.
GuardAnswer_DeclineWithoutKill ==
    /\ pc = "dl_answer"
    /\ IF Truthy(code)
       THEN \E write \in {"ok", "raises"} :
              IF write = "ok"
              THEN /\ stdin' = Append(stdin, code \o <<"\n">>)
                   /\ code' = None
                   /\ pc' = "dl_loop"
                   /\ UNCHANGED <<index, mod_id, app_id, game_name, mod_name,
                                  pageFetched, apiQueried, procOut, linesWritten,
                                  returncode, steamcmd_output, command,
                                  suggestion, details, procs>>
              ELSE NextItem /\ UNCHANGED procs
       ELSE /\ UNCHANGED procs
            /\ NextItem
    /\ UNCHANGED <<SETTINGS, CONFIG_FILE, window>>
    /\ UNCHANGED <<mod_urls, interruptionRequested, response,
                   promptQueued, fg, srcDirs, destDirs, completed_mods,
                   progress, finished, stopped, outcome, exception,
                   started>>

\* The answer to the two-factor dialog, with the code written without newline.
GuardAnswer_NoNewline ==
    /\ pc = "dl_answer"
    /\ IF Truthy(code)
       THEN \E write \in {"ok", "raises"} :
              IF write = "ok"
              THEN /\ stdin' = Append(stdin, code)
                   /\ code' = None
                   /\ pc' = "dl_loop"
                   /\ UNCHANGED <<index, mod_id, app_id, game_name, mod_name,
                                  pageFetched, apiQueried, procOut, linesWritten,
                                  returncode, steamcmd_output, command,
                                  suggestion, details, procs>>
              ELSE NextItem /\ UNCHANGED procs
       ELSE /\ procs' = Remove(procs, index)
            /\ NextItem
    /\ UNCHANGED <<SETTINGS, CONFIG_FILE, window>>
    /\ UNCHANGED <<mod_urls, interruptionRequested, response,
                   promptQueued, fg, srcDirs, destDirs, completed_mods,
                   progress, finished, stopped, outcome, exception,
                   started>>

\* `if ok and code`: the code and a newline are written to the process's
\* input and the loop goes on (the write may raise, which the handler of
\* download_mod turns into False); without a code the process is killed and
\* download_mod returns False.
GuardAnswer ==
    /\ pc = "dl_answer"
    /\ IF Truthy(code)
       THEN \E write \in {"ok", "raises"} :
              IF write = "ok"
              THEN /\ stdin' = Append(stdin, code \o <<"\n">>)
                   /\ code' = None
                   /\ pc' = "dl_loop"
                   /\ UNCHANGED <<index, mod_id, app_id, game_name, mod_name,
                                  pageFetched, apiQueried, procOut, linesWritten,
                                  returncode, steamcmd_output, command,
                                  suggestion, details, procs>>
              ELSE NextItem /\ UNCHANGED procs
       ELSE /\ procs' = Remove(procs, index)
            /\ NextItem
    /\ UNCHANGED <<SETTINGS, CONFIG_FILE, window>>
    /\ UNCHANGED <<mod_urls, interruptionRequested, response,
                   promptQueued, fg, srcDirs, destDirs, completed_mods,
                   progress, finished, stopped, outcome, exception,
                   started>>

\* The classification of the exit code, which ends download_mod; on a failure
\* the hint of analyze_steamcmd_output goes to the log.
Classify ==
    /\ pc = "dl_classify"
    /\ IF ExitSuccess(returncode[1])
       THEN /\ pc' = "chk_move"
            /\ procOut' = <<>> /\ linesWritten' = 0 /\ returncode' = <<>>
            /\ steamcmd_output' = <<>>
            /\ code' = None /\ stdin' = <<>>
            /\ UNCHANGED <<command, index, mod_id, app_id, game_name, mod_name,
                           pageFetched, apiQueried, suggestion, details>>
       ELSE /\ suggestion' = analyze_steamcmd_output(steamcmd_output)
            /\ pc' = "dl_hint"
            /\ UNCHANGED <<index, mod_id, app_id, game_name, mod_name,
                           pageFetched, apiQueried, procOut, linesWritten,
                           returncode, steamcmd_output, command, code, stdin, details>>
    /\ UNCHANGED <<SETTINGS, CONFIG_FILE, window>>
    /\ UNCHANGED <<mod_urls, interruptionRequested, response, promptQueued, fg,
                   procs, srcDirs, destDirs, completed_mods, progress, finished,
                   stopped, outcome, exception, started>>

\* The failure branch of download_mod: the hint goes to the log and
\* download_mod returns False.
EmitSuggestion ==
    /\ pc = "dl_hint"
    /\ NextItem
    /\ UNCHANGED <<response, promptQueued, outcome, exception>>
    /\ RunFrame

\* ------------------------------------------- run, after the fetch
\* The step before the relocation without its interruption test.
CheckBeforeMove_NoInterruptionTest ==
    /\ pc = "chk_move"
    /\ pc' = "move" /\ UNCHANGED <<outcome, exception>> /\ ItemLocalsUnchanged
    /\ UNCHANGED <<response, promptQueued>>
    /\ RunFrame

\* The interruption test before the relocation.
CheckBeforeMove ==
    /\ pc = "chk_move"
    /\ IF interruptionRequested
       THEN Break
       ELSE pc' = "move" /\ UNCHANGED <<outcome, exception>> /\ ItemLocalsUnchanged
    /\ UNCHANGED <<response, promptQueued>>
    /\ RunFrame

\* The relocation without the removal of an existing destination: the old
\* contents stay where they are.
Relocate_KeepsOldDestination ==
    /\ pc = "move"
    /\ LET src == <<app_id, mod_id>>
           dest == DestName(game_name, mod_name)
       IN  IF src \notin Keys(srcDirs)
           THEN UNCHANGED <<srcDirs, destDirs, completed_mods, progress>>
           ELSE \E io \in {"ok", "rmtree_raises", "move_raises"} :
                  CASE io = "ok" ->
                         /\ destDirs' = IF dest \in Keys(destDirs) THEN destDirs
                                       ELSE Put(destDirs, dest, Get(srcDirs, src))
                         /\ srcDirs' = Remove(srcDirs, src)
                         /\ completed_mods' = completed_mods + 1
                         /\ progress' = Append(progress,
                                ProgressPercent(completed_mods + 1, Len(mod_urls)))
                    [] io = "rmtree_raises" ->
                         /\ dest \in Keys(destDirs)
                         /\ UNCHANGED <<srcDirs, destDirs, completed_mods, progress>>
                    [] io = "move_raises" ->
                         /\ destDirs' = Remove(destDirs, dest)
                         /\ UNCHANGED <<srcDirs, completed_mods, progress>>
    /\ NextItem
    /\ UNCHANGED <<SETTINGS, CONFIG_FILE, window>>
    /\ UNCHANGED <<mod_urls, interruptionRequested, response,
                   promptQueued, fg, procs, finished, stopped,
                   outcome, exception, started>>

\* The relocation with a missing source counted as completed.
Relocate_CountsMissingSource ==
    /\ pc = "move"
    /\ LET src == <<app_id, mod_id>>
           dest == DestName(game_name, mod_name)
       IN  IF src \notin Keys(srcDirs)
           THEN /\ completed_mods' = completed_mods + 1
                /\ progress' = Append(progress,
                       ProgressPercent(completed_mods + 1, Len(mod_urls)))
                /\ UNCHANGED <<srcDirs, destDirs>>
           ELSE \E io \in {"ok", "rmtree_raises", "move_raises"} :
                  CASE io = "ok" ->
                         /\ destDirs' = Put(destDirs, dest, Get(srcDirs, src))
                         /\ srcDirs' = Remove(srcDirs, src)
                         /\ completed_mods' = completed_mods + 1
                         /\ progress' = Append(progress,
                                ProgressPercent(completed_mods + 1, Len(mod_urls)))
                    [] io = "rmtree_raises" ->
                         /\ dest \in Keys(destDirs)
                         /\ UNCHANGED <<srcDirs, destDirs, completed_mods, progress>>
                    [] io = "move_raises" ->
                         /\ destDirs' = Remove(destDirs, dest)
                         /\ UNCHANGED <<srcDirs, completed_mods, progress>>
    /\ NextItem
    /\ UNCHANGED <<SETTINGS, CONFIG_FILE, window>>
    /\ UNCHANGED <<mod_urls, interruptionRequested, response,
                   promptQueued, fg, procs, finished, stopped,
                   outcome, exception, started>>

\* The relocation with a failed move counted as completed.
Relocate_CountsFailedMove ==
    /\ pc = "move"
    /\ LET src == <<app_id, mod_id>>
           dest == DestName(game_name, mod_name)
       IN  IF src \notin Keys(srcDirs)
           THEN UNCHANGED <<srcDirs, destDirs, completed_mods, progress>>
           ELSE \E io \in {"ok", "rmtree_raises", "move_raises"} :
                  CASE io = "ok" ->
                         /\ destDirs' = Put(destDirs, dest, Get(srcDirs, src))
                         /\ srcDirs' = Remove(srcDirs, src)
                         /\ completed_mods' = completed_mods + 1
                         /\ progress' = Append(progress,
                                ProgressPercent(completed_mods + 1, Len(mod_urls)))
                    [] io = "rmtree_raises" ->
                         /\ dest \in Keys(destDirs)
                         /\ UNCHANGED <<srcDirs, destDirs, completed_mods, progress>>
                    [] io = "move_raises" ->
                         /\ destDirs' = Remove(destDirs, dest)
                         /\ completed_mods' = completed_mods + 1
                         /\ progress' = Append(progress,
                                ProgressPercent(completed_mods + 1, Len(mod_urls)))
                         /\ UNCHANGED srcDirs
    /\ NextItem
    /\ UNCHANGED <<SETTINGS, CONFIG_FILE, window>>
    /\ UNCHANGED <<mod_urls, interruptionRequested, response,
                   promptQueued, fg, procs, finished, stopped,
                   outcome, exception, started>>

\* move_and_rename_mod_folder and, when it returns True, the counter and the
\* progress notification. An existing destination is removed, then the source
\* is moved; either step may raise, which the function turns into False.
Relocate ==
    /\ pc = "move"
    /\ LET src == <<app_id, mod_id>>
           dest == DestName(game_name, mod_name)
       IN  IF src \notin Keys(srcDirs)
           THEN UNCHANGED <<srcDirs, destDirs, completed_mods, progress>>
           ELSE \E io \in {"ok", "rmtree_raises", "move_raises"} :
                  CASE io = "ok" ->
                         /\ destDirs' = Put(destDirs, dest, Get(srcDirs, src))
                         /\ srcDirs' = Remove(srcDirs, src)
                         /\ completed_mods' = completed_mods + 1
                         /\ progress' = Append(progress,
                                ProgressPercent(completed_mods + 1, Len(mod_urls)))
                    [] io = "rmtree_raises" ->
                         /\ dest \in Keys(destDirs)
                         /\ UNCHANGED <<srcDirs, destDirs, completed_mods, progress>>
                    [] io = "move_raises" ->
                         /\ destDirs' = Remove(destDirs, dest)
                         /\ UNCHANGED <<srcDirs, completed_mods, progress>>
    /\ NextItem
    /\ UNCHANGED <<SETTINGS, CONFIG_FILE, window>>
    /\ UNCHANGED <<mod_urls, interruptionRequested, response,
                   promptQueued, fg, procs, finished, stopped,
                   outcome, exception, started>>

\* self.finished_signal.emit() after the loop.
EmitFinished ==
    /\ pc = "emit_finished"
    /\ finished' = TRUE
    /\ pc' = "finally"
    /\ UNCHANGED <<SETTINGS, CONFIG_FILE, window>>
    /\ UNCHANGED <<mod_urls, interruptionRequested, response,
                   promptQueued, fg, procs, srcDirs, destDirs, completed_mods,
                   progress, stopped, outcome, exception, started>>
    /\ ItemLocalsUnchanged

\* The handler of run with the task ending right after it.
HandleException_SkipsFinally ==
    /\ pc = "except"
    /\ pc' = "done"
    /\ UNCHANGED <<SETTINGS, CONFIG_FILE, window>>
    /\ UNCHANGED <<mod_urls, interruptionRequested, response,
                   promptQueued, fg, procs, srcDirs, destDirs, completed_mods,
                   progress, finished, stopped, outcome, exception, started>>
    /\ ItemLocalsUnchanged

\* The handler of run: the exception is logged.
HandleException ==
    /\ pc = "except"
    /\ pc' = "finally"
    /\ UNCHANGED <<SETTINGS, CONFIG_FILE, window>>
    /\ UNCHANGED <<mod_urls, interruptionRequested, response,
                   promptQueued, fg, procs, srcDirs, destDirs, completed_mods,
                   progress, finished, stopped, outcome, exception, started>>
    /\ ItemLocalsUnchanged

\* finally: self.stopped_signal.emit().
EmitStopped ==
    /\ pc = "finally"
    /\ stopped' = TRUE
    /\ pc' = "done"
    /\ UNCHANGED <<SETTINGS, CONFIG_FILE, window>>
    /\ UNCHANGED <<mod_urls, interruptionRequested, response,
                   promptQueued, fg, procs, srcDirs, destDirs, completed_mods,
                   progress, finished, outcome, exception, started>>
    /\ ItemLocalsUnchanged

\* ------------------------------------------------- the external process
StreamPcs == {"dl_loop", "dl_guard", "dl_answer"}

\* The running process of the current WorkItem writes one more line.
ProcWrite ==
    /\ pc \in StreamPcs
    /\ index \in Running
    /\ linesWritten < MaxLines
    /\ \E line \in OutputLines : procOut' = Append(procOut, line)
    /\ linesWritten' = linesWritten + 1
    /\ UNCHANGED <<SETTINGS, CONFIG_FILE, window>>
    /\ UNCHANGED <<mod_urls, pc, interruptionRequested, response,
                   promptQueued, fg, procs, srcDirs, destDirs, completed_mods,
                   progress, finished, stopped, outcome, exception, started, index, mod_id,
                   app_id, game_name, mod_name, pageFetched, apiQueried,
                   returncode, steamcmd_output, command, code, stdin, suggestion, details>>

\* A running process exits on its own; it may have left its output directory
\* steamapps/workshop/content/<app id>/<mod id>.
ProcExit ==
    \E i \in Running, wrote \in BOOLEAN :
        /\ procs' = Remove(procs, i)
        /\ srcDirs' = IF wrote
                      THEN Put(srcDirs, <<Get(procs, i).app_id, Get(procs, i).mod_id>>, i)
                      ELSE srcDirs
        /\ UNCHANGED <<SETTINGS, CONFIG_FILE, window>>
        /\ UNCHANGED <<mod_urls, pc, interruptionRequested, response,
                       promptQueued, fg, destDirs, completed_mods, progress,
                       finished, stopped, outcome, exception, started, index,
                       mod_id, app_id, game_name, mod_name, pageFetched,
                       apiQueried, procOut, linesWritten, returncode,
                       steamcmd_output, command, code, stdin, suggestion, details>>

\* ------------------------------------------------------- the foreground
\* prompt_for_app_info without the test for an empty app id: an accepted
\* dialog stores whatever is left of the text after strip().
PromptForAppInfo_NoEmptyTest ==
    /\ promptQueued /\ fg = "idle"
    /\ promptQueued' = FALSE
    /\ \/ /\ response' = [response EXCEPT !.cancelled = TRUE]
          /\ UNCHANGED fg
       \/ \E a \in HumanAppIds \cup {<<>>} :
             /\ response' = [response EXCEPT !.app_id = a]
             /\ fg' = "store_mod_name"
    /\ UNCHANGED <<SETTINGS, CONFIG_FILE, window>>
    /\ UNCHANGED <<mod_urls, pc, interruptionRequested, procs, srcDirs,
                   destDirs, completed_mods, progress, finished, stopped,
                   outcome, exception, started>>
    /\ ItemLocalsUnchanged

\* MainWindow.prompt_for_app_info up to its first store into the dict: a
\* dismissed or empty dialog sets 'cancelled'; two filled dialogs store the
\* stripped app id.
PromptForAppInfo ==
    /\ promptQueued /\ fg = "idle"
    /\ promptQueued' = FALSE
    /\ \/ /\ response' = [response EXCEPT !.cancelled = TRUE]
          /\ UNCHANGED fg
       \/ \E a \in HumanAppIds :
             /\ response' = [response EXCEPT !.app_id = a]
             /\ fg' = "store_mod_name"
    /\ UNCHANGED <<SETTINGS, CONFIG_FILE, window>>
    /\ UNCHANGED <<mod_urls, pc, interruptionRequested, procs, srcDirs,
                   destDirs, completed_mods, progress, finished, stopped,
                   outcome, exception, started>>
    /\ ItemLocalsUnchanged

\* The last statement of prompt_for_app_info: response['mod_name'] = ...
PromptStoreModName ==
    /\ fg = "store_mod_name"
    /\ \E t \in HumanModNames : response' = [response EXCEPT !.mod_name = t]
    /\ fg' = "idle"
    /\ UNCHANGED <<SETTINGS, CONFIG_FILE, window>>
    /\ UNCHANGED <<mod_urls, pc, interruptionRequested, promptQueued,
                   procs, srcDirs, destDirs, completed_mods, progress, finished,
                   stopped, outcome, exception, started>>
    /\ ItemLocalsUnchanged

\* MainWindow.closeEvent answered Yes while the thread runs:
\* self.thread.requestInterruption(), self.setEnabled(False), the connection
\* of stopped_signal to cleanup_and_exit, event.ignore().
RequestInterruption ==
    /\ pc # "done"
    /\ fg = "idle"
    /\ ~interruptionRequested
    /\ interruptionRequested' = TRUE
    /\ window' = [window EXCEPT !.reply = "Yes", !.enabled = FALSE,
                                !.exit_slot = "connected"]
    /\ UNCHANGED <<SETTINGS, CONFIG_FILE>>
    /\ UNCHANGED <<mod_urls, pc, response, promptQueued, fg, procs,
                   srcDirs, destDirs, completed_mods, progress, finished,
                   stopped, outcome, exception, started>>
    /\ ItemLocalsUnchanged

\* ------------------------------------------------------------ specification
Background ==
    \/ Bootstrap \/ LoopHead \/ ExtractId \/ PageParse \/ ApiQuery \/ AfterInfo
    \/ PollCheck \/ PollSleep \/ PollExit \/ CheckBeforeFetch
    \/ DownloadPrepare \/ Spawn \/ StreamIteration \/ StreamGuard
    \/ GuardAnswer \/ EmitSuggestion
    \/ Classify \/ CheckBeforeMove \/ Relocate
    \/ EmitFinished \/ HandleException \/ EmitStopped

Next ==
    \/ Background
    \/ ProcWrite \/ ProcExit
    \/ PromptForAppInfo \/ PromptStoreModName \/ RequestInterruption

Spec == Init /\ [][Next]_vars

\* ================================================================== claims
FetchPcs ==
    {"dl_prep", "dl_spawn", "dl_loop", "dl_guard", "dl_answer", "dl_classify",
     "dl_hint"}

\* A step of the background task that begins the stage `at` of a WorkItem.
Begins(at) == pc' # pc /\ pc' = at

\* C1: WorkItems are started in input order and one at a time, and at no time
\* are two external fetch processes alive, also after download_mod has
\* returned early (two-factor prompt declined, exception in the streaming loop).
C1_OneFetchAtATime ==
    /\ Cardinality(Running) <= 1
    /\ \A i \in started : i <= index

\* C2: without a cancellation request, a failure of one stage of one WorkItem
\* (an error while the external process is prepared or spawned included) skips
\* that item only: every WorkItem is started and the run ends normally, with
\* finished_signal emitted.
C2_FailureSkipsOneItem ==
    (pc = "done" /\ ~interruptionRequested /\ outcome # "Exit"
        /\ exception # "bootstrap")
    => (finished /\ started = 1..Len(mod_urls))

\* C3: whenever download_mod is running, and for every process it has spawned,
\* mod_id and app_id are non-empty strings, whichever of the page, the API and
\* the prompt supplied them.
C3_FetchHasIds ==
    /\ pc \in FetchPcs => Truthy(mod_id) /\ Truthy(app_id)
    /\ \A e \in procs : Truthy(e.val.mod_id) /\ Truthy(e.val.app_id)

\* C3, its case: download_mod is about to spawn the process with the app id
\* the user typed into the prompt.
C3_Witness ==
    pc = "dl_spawn" /\ app_id \in HumanAppIds /\ apiQueried = 1

\* C4: an iteration of the streaming loop that begins with cancellation
\* requested and the process alive ends the loop with the process terminated;
\* the loop neither reads on nor waits for the process to exit by itself.
C4_StreamingObservesCancel ==
    [][(pc = "dl_loop" /\ interruptionRequested /\ index \in Running
            /\ (pc' # pc \/ steamcmd_output' # steamcmd_output))
        => (pc' \notin FetchPcs /\ index \notin Keys(procs'))]_vars

\* C5: a cancellation request never ends the run through the exception handler
\* of run: the handler never catches the KeyError that
\* prompt_user_for_app_info raises when its poll loop is left on a
\* cancellation request with no response delivered.
C5_CancelNotThroughException ==
    ~(interruptionRequested /\ outcome = "Exception"
        /\ exception = "KeyError app_id")

\* The run has observed the cancellation request.
CancelObserved == outcome = "Cancelled" \/ exception = "KeyError app_id"

\* C6: once cancellation is requested no further WorkItem is started, and once
\* it has been observed nothing is touched any more: no identifier extracted,
\* no network call, no process spawned, no directory moved, and what was
\* relocated stays relocated.
C6_CancelLeavesRestUntouched ==
    [][/\ interruptionRequested => started' = started
       /\ CancelObserved =>
            /\ started' = started /\ index' = index
            /\ pageFetched' = pageFetched /\ apiQueried' = apiQueried
            /\ Keys(procs') \subseteq Keys(procs)
            /\ destDirs' = destDirs
            /\ completed_mods' = completed_mods]_vars

\* C6, its case: the run has ended on a cancellation observed while the first
\* of two WorkItems was being processed, and the second was never started.
C6_Witness ==
    /\ pc = "done" /\ outcome = "Cancelled"
    /\ Len(mod_urls) = 2 /\ started = {1} /\ index = 1

\* C7, as claimed: no stage of a WorkItem (identifier extraction, metadata
\* resolution, fetch, relocation) begins once cancellation has been requested.
C7_CheckedBeforeEveryStage ==
    [][(Begins("get_mod_id") \/ Begins("page_tier") \/ Begins("dl_prep")
            \/ Begins("move"))
        => ~interruptionRequested]_vars

\* C7, amended: a WorkItem, its fetch and its relocation begin only while no
\* cancellation is requested (the three tests of run); metadata resolution is
\* not preceded by such a test.
C7_CheckedBeforeItemFetchMove ==
    [][(Begins("get_mod_id") \/ Begins("dl_prep") \/ Begins("move"))
        => ~interruptionRequested]_vars

\* C7, its case: the run broke off at the test after the fetch of the current
\* WorkItem, whose output directory is there and was not moved.
C7_Witness ==
    /\ pc = "emit_finished" /\ outcome = "Cancelled"
    /\ \E e \in srcDirs : e.val = index

\* A response to the metadata prompt is there, declined or filled in.
ResponseDelivered == response.cancelled \/ response.app_id # None

\* C8: once the foreground has delivered a response, declined or filled in,
\* the poll loop leaves at its next test, without a cancellation request.
C8_PollLeavesOnResponse ==
    [][(pc = "poll_check" /\ ResponseDelivered /\ pc' # pc)
        => pc' = "poll_exit"]_vars

\* C9: the prompt is emitted exactly when get_app_info returned no identity;
\* the item then goes on to the fetch with exactly the app id and title of the
\* response and the owner name "UnknownGame", and the process is spawned with
\* that app id.
C9_PromptSuppliesIdentity ==
    [][/\ (pc = "info_done" /\ pc' # pc) =>
            (pc' = "poll_check" <=>
                (app_id = None /\ game_name = None /\ mod_name = None))
       /\ (pc = "poll_exit" /\ pc' = "chk_fetch") =>
            /\ app_id' = response.app_id /\ response.app_id \in HumanAppIds
            /\ mod_name' = response.mod_name /\ response.mod_name \in HumanModNames
            /\ game_name' = UnknownGame
       /\ (pc \in {"chk_fetch", "dl_prep", "dl_spawn"}
              /\ pc' \in {"dl_prep", "dl_spawn", "dl_loop"}) =>
            /\ app_id' = app_id /\ mod_name' = mod_name /\ game_name' = game_name
            /\ pc' = "dl_loop" => Get(procs', index).app_id = app_id]_vars

\* C9, its case: both tiers failed, the user filled in the prompt, and the
\* process runs with what the user typed.
C9_Witness ==
    /\ pc = "dl_loop" /\ apiQueried = 1
    /\ app_id \in HumanAppIds /\ mod_name \in HumanModNames
    /\ game_name = UnknownGame

\* C10: whenever the page tier has obtained an app id and a title, the API
\* tier is not attempted, whatever the application-name element holds.
C10_PageSuccessSkipsApi ==
    ~(pc = "api_tier" /\ Truthy(app_id) /\ Truthy(mod_name))

\* C11: when the remote API answers with one detail record holding a non-empty
\* consumer_app_id a and a non-empty title t, get_app_info returns
\* (a, "UnknownGame", t), whatever method 1 had left in its locals.
C11_ApiTierResult ==
    (pc = "info_done" /\ details.status = "record"
        /\ Truthy(details.consumer_app_id) /\ Truthy(details.title))
    => /\ app_id = details.consumer_app_id
       /\ game_name = UnknownGame
       /\ mod_name = details.title

\* C11, its case: method 1 has failed and the API has answered with a complete
\* record, from which get_app_info has built its result.
C11_Witness ==
    /\ pc = "info_done" /\ details.status = "record"
    /\ Truthy(details.consumer_app_id) /\ Truthy(details.title)
    /\ pageFetched = 1 /\ apiQueried = 1

\* C12: once the process has terminated, download_mod goes on as a success
\* exactly when the exit code is 0, 6 or 7 and takes its failure branch for
\* every other code, whatever the output was.
C12_ExitCodeDecides ==
    [][(pc = "dl_classify" /\ pc' # pc)
        => /\ pc' \in {"chk_move", "dl_hint"}
           /\ pc' = "chk_move" <=> returncode[1] \in {0, 6, 7}]_vars

\* C12, its case: exit code 1 has been classified as a failure.
C12_Witness ==
    pc = "dl_hint" /\ returncode = <<1>>

\* C13: the streaming loop ends only when nothing the process wrote is left
\* unread.
C13_LoopReadsAllOutput ==
    [][(pc = "dl_loop" /\ pc' = "dl_classify") => procOut = <<>>]_vars

\* C14: the two-factor code comes out of the request/response handoff: when
\* download_mod obtains the answer, a prompt request had been emitted and the
\* foreground has delivered a response to it.
C14_GuardCodeByHandoff ==
    [][(pc = "dl_guard" /\ pc' = "dl_answer")
        => (ResponseDelivered /\ ~promptQueued)]_vars

\* C15: when the two-factor dialog is declined, the process is terminated and
\* download_mod returns at once: no line is read, no exit code classified,
\* nothing relocated or counted, and run goes on to the next WorkItem.
C15_DeclineKillsAndSkips ==
    [][(pc = "dl_answer" /\ ~Truthy(code) /\ pc' # pc)
        => /\ index \notin Keys(procs')
           /\ pc' = "loop_head" /\ index' = index + 1
           /\ returncode' = <<>> /\ suggestion' = None
           /\ UNCHANGED <<srcDirs, destDirs, completed_mods, progress>>]_vars

\* C15, its case: the dialog has been declined while the process is alive.
C15_Witness ==
    pc = "dl_answer" /\ ~Truthy(code) /\ index \in Running

\* Number of lines of the output read so far that match the two-factor prompt.
GuardCount(output) ==
    Cardinality({i \in 1..Len(output) : GuardMatch(output[i])})

C17_SoftFailureGetsHint ==
    [][(pc \in FetchPcs /\ pc' = "loop_head")
        => (pc = "dl_hint" /\ suggestion # None)]_vars

\* ------------------------------------------- analyze_steamcmd_output alone
\* The lines an output text is made of: one for each signature fragment and
\* one that holds none.
AnalyzeLines ==
    {<<"No subscription">>, <<"Invalid Password">>, <<"Too many login failures">>,
     <<"Logged in OK">>, PlainLine, <<"ERROR!">>, <<"Invalid AuthCode">>,
     <<"Two-factor code mismatch">>, <<"Success">>}

AnalyzeTexts == UNION {[1..n -> AnalyzeLines] : n \in 0..MaxText}

\* download_mod after process.wait() with a failing exit code and any
\* accumulated output.
InitAnalyze ==
    /\ SETTINGS = DEFAULT_SETTINGS
    /\ window = StartedWindow
    /\ CONFIG_FILE = DEFAULT_SETTINGS
    /\ mod_urls = <<U_AppId>>
    /\ pc = "dl_classify"
    /\ index = 1
    /\ interruptionRequested = FALSE
    /\ mod_id = <<"7">> /\ app_id = <<"4">>
    /\ game_name = UnknownGame /\ mod_name = <<"T">>
    /\ response = EmptyResponse
    /\ promptQueued = FALSE
    /\ fg = "idle"
    /\ procs = {}
    /\ procOut = <<>>
    /\ linesWritten = 0
    /\ returncode = <<1>>
    /\ steamcmd_output \in AnalyzeTexts
    /\ command = <<>>
    /\ code = None /\ stdin = <<>>
    /\ suggestion = None
    /\ details = ApiFailure("none")
    /\ srcDirs = {}
    /\ destDirs = {}
    /\ completed_mods = 0
    /\ progress = <<>>
    /\ finished = FALSE /\ stopped = FALSE
    /\ outcome = "running"
    /\ exception = "none"
    /\ started = {1}
    /\ pageFetched = 1 /\ apiQueried = 0

NextAnalyze == Classify \/ EmitSuggestion

SpecAnalyze == InitAnalyze /\ [][NextAnalyze]_vars

Has(signature) == TextContains(steamcmd_output, signature)

\* C18: the hint is that of the first signature, in the order no subscription,
\* invalid password, too many login failures, (logged in OK and download
\* attempt and error), (invalid or mismatched two-factor code), that the
\* output text contains, and the generic hint when it contains none.
C18_FirstMatchWins ==
    pc = "dl_hint" =>
        LET s1 == Has("No subscription")
            s2 == Has("Invalid Password")
            s3 == Has("Too many login failures")
            s4 == Has("Logged in OK") /\ Has("Downloading item") /\ Has("ERROR!")
            s5 == Has("Invalid AuthCode") \/ Has("Two-factor code mismatch")
        IN  /\ s1 => suggestion = "suggestion_no_subscription"
            /\ (~s1 /\ s2) => suggestion = "suggestion_invalid_password"
            /\ (~s1 /\ ~s2 /\ s3) => suggestion = "suggestion_too_many_failures"
            /\ (~s1 /\ ~s2 /\ ~s3 /\ s4)
                  => suggestion = "suggestion_private_or_removed_mod"
            /\ (~s1 /\ ~s2 /\ ~s3 /\ ~s4 /\ s5)
                  => suggestion = "suggestion_invalid_steam_guard_code"
            /\ (~s1 /\ ~s2 /\ ~s3 /\ ~s4 /\ ~s5)
                  => suggestion = "suggestion_general_failure"

\* C18, its case: a text that holds the no-subscription signature after
\* another signature has been given the no-subscription hint.
C18_Witness ==
    /\ pc = "dl_hint" /\ Len(steamcmd_output) >= 2
    /\ steamcmd_output[1] = <<"Invalid Password">>
    /\ Has("No subscription")
    /\ suggestion = "suggestion_no_subscription"

\* C19: a relocation that succeeds leaves at the destination exactly what the
\* source held, whatever was there before, leaves every other destination
\* alone, and leaves no source directory behind.
C19_RelocationOverwrites ==
    [][(pc = "move" /\ completed_mods' = completed_mods + 1)
        => LET src == <<app_id, mod_id>>
               dest == DestName(game_name, mod_name)
           IN  /\ {e \in destDirs' : e.key = dest}
                     = {[key |-> dest, val |-> Get(srcDirs, src)]}
               /\ Remove(destDirs', dest) = Remove(destDirs, dest)
               /\ src \notin Keys(srcDirs')]_vars

\* C19, its case: two WorkItems have been relocated in turn to the same
\* destination, which holds what the second one fetched.
C19_Witness ==
    /\ completed_mods = 2 /\ Cardinality(destDirs) = 1
    /\ \A e \in destDirs : e.val = 2

\* C20: with the tool's output directory of the item absent, the relocation
\* changes no directory, counts nothing as completed, and run goes on to the
\* next WorkItem.
C20_MissingSourceChangesNothing ==
    [][(pc = "move" /\ <<app_id, mod_id>> \notin Keys(srcDirs) /\ pc' # pc)
        => /\ UNCHANGED <<srcDirs, destDirs, completed_mods, progress>>
           /\ pc' = "loop_head" /\ index' = index + 1]_vars

\* C20, its case: the relocation is reached without the output directory,
\* with an earlier item's destination in place.
C20_Witness ==
    /\ pc = "move" /\ <<app_id, mod_id>> \notin Keys(srcDirs)
    /\ destDirs # {}

\* C21: at the end of a run every item counted in completed_mods has its own
\* destination directory: there are at least as many destination directories
\* as counted items, each counted item's content being in one of them.
C21_OneDirectoryPerCountedItem ==
    pc = "done" => Cardinality(destDirs) >= completed_mods

\* ------------------------------------------- the progress specification
\* Longest list of WorkItems in the runs that are started at a relocation.
MaxTotal == 50

\* A run over `total` WorkItems, all of them the same URL, in which every item
\* before the current one has been relocated and counted, and the current item
\* stands before its relocation with its source directory in place.
InitProgress ==
    /\ SETTINGS = DEFAULT_SETTINGS
    /\ window = StartedWindow
    /\ CONFIG_FILE = DEFAULT_SETTINGS
    /\ \E total \in 1..MaxTotal : mod_urls = [k \in 1..total |-> U_AppId]
    /\ completed_mods \in 0..(Len(mod_urls) - 1)
    /\ index = completed_mods + 1
    /\ pc = "move"
    /\ interruptionRequested = FALSE
    /\ mod_id = <<"7">> /\ app_id = <<"4">>
    /\ game_name = <<"G">> /\ mod_name = <<"T">>
    /\ response = EmptyResponse
    /\ promptQueued = FALSE
    /\ fg = "idle"
    /\ procs = {}
    /\ procOut = <<>>
    /\ linesWritten = 0
    /\ returncode = <<>>
    /\ steamcmd_output = <<>>
    /\ command = <<>>
    /\ code = None /\ stdin = <<>>
    /\ suggestion = None
    /\ details = ApiFailure("none")
    /\ srcDirs = {[key |-> <<app_id, mod_id>>, val |-> index]}
    /\ destDirs = IF completed_mods = 0 THEN {}
                  ELSE {[key |-> DestName(game_name, mod_name),
                         val |-> completed_mods]}
    /\ progress = [k \in 1..completed_mods |->
                      ProgressPercent(k, Len(mod_urls))]
    /\ finished = FALSE /\ stopped = FALSE
    /\ outcome = "running"
    /\ exception = "none"
    /\ started = 1..index
    /\ pageFetched = 1 /\ apiQueried = 0

NextProgress == Relocate

SpecProgress == InitProgress /\ [][NextProgress]_vars

\* C22: every progress value emitted is floor(100 * completed / total) for the
\* counts at the time of the emission.
C22_ProgressIsFloor ==
    [][completed_mods' # completed_mods =>
          /\ Len(progress') = Len(progress) + 1
          /\ progress'[Len(progress')] =
                (100 * completed_mods') \div Len(mod_urls)]_vars

\* C23: within one run the progress values emitted so far are non-decreasing
\* and every one of them lies in 0..100.
C23_ProgressMonotone ==
    \A k \in 1..Len(progress) :
        /\ progress[k] \in 0..100
        /\ k > 1 => progress[k - 1] <= progress[k]

\* The relocation of item 29 of 50 has emitted its value after 28 others.
C23_Witness ==
    /\ pc = "loop_head" /\ Len(mod_urls) = 50
    /\ Len(progress) = 29 /\ completed_mods = 29
    /\ progress[28] = 56 /\ progress[29] = 57

\* C24: the counter goes up, and a progress value is emitted, exactly in the
\* step in which the relocation of the current WorkItem succeeds, by one and
\* once per item; the counter is the number of values emitted, and is at most
\* the number of WorkItems started and at most the length of the list.
C24_CountedOncePerRelocation ==
    /\ [](/\ completed_mods = Len(progress)
          /\ completed_mods <= Cardinality(started)
          /\ completed_mods <= Len(mod_urls))
    /\ [][LET src == <<app_id, mod_id>>
              dest == DestName(game_name, mod_name)
              relocated == /\ pc = "move" /\ src \in Keys(srcDirs)
                           /\ src \notin Keys(srcDirs')
                           /\ [key |-> dest, val |-> Get(srcDirs, src)] \in destDirs'
          IN  /\ (completed_mods' # completed_mods \/ progress' # progress)
                    => /\ relocated
                       /\ completed_mods' = completed_mods + 1
                       /\ Len(progress') = Len(progress) + 1
                       /\ index' = index + 1
              /\ relocated => completed_mods' = completed_mods + 1]_vars

\* C24, its case: a run has ended in which one WorkItem was relocated and
\* counted and another was started and not relocated.
C24_Witness ==
    /\ pc = "done" /\ completed_mods = 1 /\ Len(progress) = 1
    /\ Cardinality(started) = 2 /\ Cardinality(destDirs) = 1

\* ------------------------------------------- the settings specification
\* The settings menu belongs to the window and is disabled with it.
\* What no settings handler touches: the background task and its processes.
SettingsFrame ==
    UNCHANGED <<window, mod_urls, pc, index, interruptionRequested, mod_id, app_id,
                game_name, mod_name, response, promptQueued, procs, procOut,
                linesWritten, returncode, steamcmd_output, command, code,
                stdin, suggestion, details, srcDirs, destDirs, completed_mods,
                progress, finished, stopped, outcome, exception, started,
                pageFetched, apiQueried>>

\* MainWindow.set_download_method: the one method of the list, when the dialog
\* is accepted, and save_settings.
SetDownloadMethod ==
    /\ fg = "idle" /\ window.enabled
    /\ \E ok \in BOOLEAN :
          IF ok
          THEN /\ SETTINGS' = [SETTINGS EXCEPT !.download_method = "SteamCMD"]
               /\ CONFIG_FILE' = SETTINGS'
          ELSE UNCHANGED <<SETTINGS, CONFIG_FILE>>
    /\ UNCHANGED fg
    /\ SettingsFrame

\* MainWindow.set_login_method up to its call of set_steam_credentials: the
\* anonymous choice resets the three keys and saves; the account choice stores
\* the mode and opens the credential dialogs.
SetLoginMethod ==
    /\ fg = "idle" /\ window.enabled
    /\ \E choice \in {"dismissed", "anonymous", "account"} :
          CASE choice = "dismissed" -> UNCHANGED <<SETTINGS, CONFIG_FILE, fg>>
            [] choice = "anonymous" ->
                 /\ SETTINGS' = [SETTINGS EXCEPT !.login_method = "anonymous",
                                                 !.steam_username = Anonymous,
                                                 !.steam_password = <<>>]
                 /\ CONFIG_FILE' = SETTINGS'
                 /\ UNCHANGED fg
            [] choice = "account" ->
                 /\ SETTINGS' = [SETTINGS EXCEPT !.login_method = "account"]
                 /\ fg' = "set_steam_credentials"
                 /\ UNCHANGED CONFIG_FILE
    /\ SettingsFrame

\* MainWindow.set_steam_credentials as called by set_login_method, and the
\* save_settings that follows it there. The first dialog is filled in with the
\* stored username; a dismissed dialog or a text that is empty after strip()
\* returns with the two keys as they were.
SetSteamCredentials ==
    /\ fg = "set_steam_credentials"
    /\ \E ok1, ok2 \in BOOLEAN,
          username \in TypedUsernames \cup {SETTINGS.steam_username},
          password \in TypedPasswords :
          IF ok1 /\ strip(username) # <<>> /\ ok2 /\ strip(password) # <<>>
          THEN SETTINGS' = [SETTINGS EXCEPT !.steam_username = strip(username),
                                           !.steam_password = strip(password)]
          ELSE UNCHANGED SETTINGS
    /\ CONFIG_FILE' = SETTINGS'
    /\ fg' = "idle"
    /\ SettingsFrame

\* MainWindow.reset_settings: SETTINGS.update(DEFAULT_SETTINGS) and
\* save_settings when the question is answered Yes.
ResetSettings ==
    /\ fg = "idle" /\ window.enabled
    /\ \E reply \in {"Yes", "No"} :
          IF reply = "Yes"
          THEN /\ SETTINGS' = DEFAULT_SETTINGS
               /\ CONFIG_FILE' = SETTINGS'
          ELSE UNCHANGED <<SETTINGS, CONFIG_FILE>>
    /\ UNCHANGED fg
    /\ SettingsFrame

\* A run over one WorkItem, with the settings menu in use.
InitSettings == Init /\ Len(mod_urls) = 1

NextSettings ==
    \/ Next
    \/ SetDownloadMethod \/ SetLoginMethod \/ SetSteamCredentials
    \/ ResetSettings

SpecSettings == InitSettings /\ [][NextSettings]_vars

\* The background task is processing the WorkItems of its list.
RunInProgress == pc \notin {"start", "emit_finished", "except", "finally", "done"}

\* C25: while a run is in progress the settings read by the fetch stage do not
\* change: no step taken during a run alters SETTINGS.
C25_SettingsFixedDuringRun ==
    [][RunInProgress => SETTINGS' = SETTINGS]_vars

\* C30: once the settings handlers have returned, login mode account comes
\* with a non-empty password and a username other than 'anonymous'.
C30_AccountHasCredentials ==
    (fg = "idle" /\ SETTINGS.login_method = "account")
        => /\ SETTINGS.steam_password # <<>>
           /\ SETTINGS.steam_username # Anonymous

\* The stages of one iteration of run, in the order of the code; the poll loop
\* and the streaming loop are one stage each.
StageRank(at) ==
    CASE at = "start" -> 0
      [] at = "loop_head" -> 1
      [] at = "get_mod_id" -> 2
      [] at = "page_tier" -> 3
      [] at = "api_tier" -> 4
      [] at = "info_done" -> 5
      [] at \in {"poll_check", "poll_sleep", "poll_exit"} -> 6
      [] at = "chk_fetch" -> 7
      [] at = "dl_prep" -> 8
      [] at = "dl_spawn" -> 9
      [] at \in StreamPcs -> 10
      [] at = "dl_classify" -> 11
      [] at = "dl_hint" -> 12
      [] at = "chk_move" -> 13
      [] at = "move" -> 14
      [] at \in {"emit_finished", "except"} -> 15
      [] at = "finally" -> 16
      [] OTHER -> 17

\* C26: no stage is retried. The list is walked forwards only; within one
\* WorkItem the task never goes back to a stage it has left, the steps that
\* fetch the page, query the API, emit the prompt, spawn the process and
\* relocate each leave their stage at once, and at most one page fetch and one
\* API query are made for the item.
C26_NoStageRetried ==
    /\ [](pageFetched <= 1 /\ apiQueried <= 1)
    /\ [][LET forwards == \/ StageRank(pc') > StageRank(pc)
                          \/ /\ StageRank(pc') = StageRank(pc)
                             /\ StageRank(pc) \in {6, 10}
              acts == \/ pageFetched' > pageFetched
                      \/ apiQueried' > apiQueried
                      \/ ~promptQueued /\ promptQueued'
                      \/ index \in Keys(procs') \ Keys(procs)
                      \/ destDirs' # destDirs \/ completed_mods' # completed_mods
              leaves == \/ index' = index + 1
                        \/ /\ pc' # pc
                           /\ pc \in {"page_tier", "api_tier", "info_done",
                                      "dl_spawn", "move"}
          IN  /\ index' \in {index, index + 1}
              /\ (index' = index /\ pc' # pc) => forwards
              /\ (index' = index + 1 /\ pc # "loop_head") => pc' = "loop_head"
              /\ acts => leaves]_vars

\* C26, its case: a run over one WorkItem has ended with the item relocated
\* under the name the prompt gave, after the page, the API, the prompt, the
\* spawn and the relocation.
C26_Witness ==
    /\ pc = "done" /\ Len(mod_urls) = 1 /\ completed_mods = 1
    /\ \E e \in destDirs : e.key = DestName(UnknownGame, <<"H">>)

\* --------------------------------------------- the identifier specification
\* Longest URL handed to get_mod_id on its own.
MaxUrl == 7

IdAlphabet == {"i", "d", "=", "7", "8"}

\* start_download hands over stripped, non-empty lines.
IdUrls == UNION {[1..n -> IdAlphabet] : n \in 1..MaxUrl}

\* run at the call of get_mod_id for the one WorkItem of its list.
InitId ==
    /\ SETTINGS = DEFAULT_SETTINGS
    /\ window = StartedWindow
    /\ CONFIG_FILE = DEFAULT_SETTINGS
    /\ \E u \in IdUrls : mod_urls = <<u>>
    /\ pc = "get_mod_id"
    /\ index = 1
    /\ interruptionRequested = FALSE
    /\ mod_id = None /\ app_id = None /\ game_name = None /\ mod_name = None
    /\ response = EmptyResponse
    /\ promptQueued = FALSE
    /\ fg = "idle"
    /\ procs = {}
    /\ procOut = <<>>
    /\ linesWritten = 0
    /\ returncode = <<>>
    /\ steamcmd_output = <<>>
    /\ command = <<>>
    /\ code = None /\ stdin = <<>>
    /\ suggestion = None
    /\ details = ApiFailure("none")
    /\ srcDirs = {}
    /\ destDirs = {}
    /\ completed_mods = 0
    /\ progress = <<>>
    /\ finished = FALSE /\ stopped = FALSE
    /\ outcome = "running"
    /\ exception = "none"
    /\ started = {1}
    /\ pageFetched = 0 /\ apiQueried = 0

NextId == ExtractId

SpecId == InitId /\ [][NextId]_vars

\* The positions of url at which "id=" stands with a digit right after it.
IdAt(url) ==
    {p \in 1..Len(url) :
        /\ p + 3 <= Len(url)
        /\ url[p] = "i" /\ url[p + 1] = "d" /\ url[p + 2] = "="
        /\ url[p + 3] \in Digits}

\* C27: for a URL that holds id=<digits>, get_mod_id gives the digits that
\* follow the leftmost such id=, all of them and nothing else, and run goes on
\* to the metadata; for any other URL run goes on to the next WorkItem with
\* no page fetched, no API queried and no process spawned.
C27_IdIsDigitRun ==
    [][pc = "get_mod_id" =>
          LET url == CurrentUrl
          IN  IF IdAt(url) = {}
              THEN /\ pc' = "loop_head" /\ index' = index + 1
                   /\ mod_id' = None
                   /\ pageFetched' = 0 /\ apiQueried' = 0
                   /\ UNCHANGED <<procs, promptQueued, srcDirs, destDirs>>
              ELSE LET p == Min(IdAt(url))
                       n == Len(mod_id')
                   IN  /\ pc' = "page_tier"
                       /\ n >= 1 /\ p + 2 + n <= Len(url)
                       /\ \A k \in 1..n : /\ mod_id'[k] = url[p + 2 + k]
                                          /\ mod_id'[k] \in Digits
                       /\ p + 3 + n <= Len(url) => url[p + 3 + n] \notin Digits]_vars

\* C27, its case: a URL with id= twice, the first without a digit after it,
\* has given the digit that follows the second.
C27_Witness ==
    /\ mod_urls = << <<"i", "d", "=", "i", "d", "=", "7">> >>
    /\ pc = "page_tier" /\ mod_id = <<"7">>

\* C29: once the API has been queried, get_app_info returns an identity
\* exactly when the answer is a detail record with a non-empty consumer_app_id
\* and a title that is absent or non-empty; the identity then holds that app
\* id and the title, "Mod_" + mod_id standing in for an absent title. On a
\* failed request, a malformed answer, an empty list, a missing app id or an
\* empty title it returns (None, None, None).
C29_ApiTierFailsOrIdentifies ==
    (pc = "info_done" /\ apiQueried = 1)
    => IF /\ details.status = "record"
          /\ details.consumer_app_id \notin {None, <<>>}
          /\ details.title # <<>>
       THEN /\ app_id = details.consumer_app_id
            /\ mod_name = IF details.title = None
                          THEN <<"M", "o", "d", "_">> \o mod_id
                          ELSE details.title
       ELSE app_id = None /\ game_name = None /\ mod_name = None

\* C29, its case: the API has answered with a record that has an app id and no
\* title, and get_app_info has returned the default title.
C29_Witness ==
    /\ pc = "info_done" /\ apiQueried = 1
    /\ details.status = "record" /\ details.title = None
    /\ app_id = <<"4">> /\ mod_name = <<"M", "o", "d", "_", "7">>

\* C28: the command download_mod builds is the executable, +login, then the
\* one word anonymous (login mode anonymous) or the stored username and
\* password (login mode account), then +workshop_download_item with the app
\* id and the mod id of the current WorkItem, then +quit, and nothing else.
C28_CommandShape ==
    [][(pc = "dl_prep" /\ pc' = "dl_spawn")
        => LET n == Len(command')
           IN  /\ n = IF SETTINGS.login_method = "account" THEN 8 ELSE 7
               /\ command'[1] = <<"steamcmd">>
               /\ command'[2] = <<"+login">>
               /\ IF SETTINGS.login_method = "account"
                  THEN /\ command'[3] = SETTINGS.steam_username
                       /\ command'[4] = SETTINGS.steam_password
                  ELSE command'[3] = <<"anonymous">>
               /\ command'[n - 3] = <<"+workshop_download_item">>
               /\ command'[n - 2] = app_id
               /\ command'[n - 1] = mod_id
               /\ command'[n] = <<"+quit">>]_vars

\* C28, its case: with login mode account and a username and a password
\* entered, download_mod has built its command and stands before Popen.
C28_Witness ==
    /\ pc = "dl_spawn" /\ SETTINGS.login_method = "account"
    /\ Len(command) = 8 /\ command[3] = <<"u">> /\ command[4] = <<"p">>
    /\ command[6] = app_id /\ command[7] = mod_id

\* C31: run ends with stopped_signal and with nothing after it, on every path:
\* the task is at its end exactly when stopped_signal has been emitted, the
\* signal is emitted in the finally clause alone, and after it no progress
\* value, prompt or finished_signal follows. finished_signal is emitted once
\* at most, before stopped_signal, and never in a run that an exception ended.
C31_StoppedLastFinishedBefore ==
    /\ [](stopped <=> pc = "done")
    /\ [](finished => (pc \in {"finally", "done"}
                        /\ outcome \in {"Completed", "Cancelled"}))
    /\ [][/\ (stopped' /\ ~stopped) => pc = "finally"
          /\ (finished' /\ ~finished) => (pc = "emit_finished" /\ ~stopped')
          /\ finished => finished'
          /\ stopped => /\ stopped' /\ pc' = "done"
                        /\ UNCHANGED <<finished, progress, completed_mods>>
                        /\ ~(promptQueued' /\ ~promptQueued)]_vars

\* C31, its case: a run that an exception ended has emitted stopped_signal
\* and no finished_signal.
C31_Witness ==
    pc = "done" /\ outcome = "Exception" /\ stopped /\ ~finished

\* ------------------------------------------- the window specification
\* DownloadThreads created during one execution of the program.
MaxThreads == 2

\* What no handler of the window touches in the thread and its surroundings.
ThreadUntouched ==
    UNCHANGED <<SETTINGS, CONFIG_FILE, mod_urls, pc, index, mod_id, app_id,
                game_name, mod_name, response, promptQueued, procs, procOut,
                linesWritten, returncode, steamcmd_output, command, code,
                stdin, suggestion, details, srcDirs, destDirs, completed_mods,
                progress, finished, stopped, outcome, exception, started,
                pageFetched, apiQueried>>

\* The event loop is running and the window is open.
WindowOpen == ~window.quit /\ ~window.accepted

\* The start control reacts to a click: its own flag and the window's.
StartEnabled == window.start_button /\ window.enabled

\* The slot download_finished up to its message box: finished_signal was
\* emitted by self.thread and the box is open.
DownloadFinished ==
    /\ WindowOpen
    /\ finished /\ "finished" \notin window.handled
    /\ fg = "idle"
    /\ fg' = "download_finished"
    /\ UNCHANGED <<window, interruptionRequested>>
    /\ ThreadUntouched

\* The rest of download_finished once the box is closed: enable_inputs().
InfoClosed ==
    /\ WindowOpen
    /\ fg = "download_finished"
    /\ fg' = "idle"
    /\ window' = [window EXCEPT !.start_button = TRUE,
                                !.handled = @ \cup {"finished"}]
    /\ UNCHANGED interruptionRequested
    /\ ThreadUntouched

\* The slot cleanup_after_thread run for the stopped_signal of self.thread:
\* enable_inputs(). Queued slots run in the order of their signals, also
\* by the event loop of an open dialog.
CleanupAfterThread ==
    /\ WindowOpen
    /\ stopped /\ "stopped" \notin window.handled
    /\ finished => ("finished" \in window.handled \/ fg = "download_finished")
    /\ window' = [window EXCEPT !.start_button = TRUE,
                                !.handled = @ \cup {"stopped"}]
    /\ UNCHANGED <<fg, interruptionRequested>>
    /\ ThreadUntouched

\* A thread that start_download replaced reaches the end of run: it emits
\* its stopped_signal and is over.
EarlierThreadStops ==
    /\ window.earlier_running > 0
    /\ window' = [window EXCEPT !.earlier_running = @ - 1,
                                !.earlier_queued = @ + 1]
    /\ UNCHANGED <<fg, interruptionRequested>>
    /\ ThreadUntouched

\* The slot cleanup_after_thread run for the stopped_signal of a replaced
\* thread: enable_inputs().
EarlierCleanup ==
    /\ WindowOpen
    /\ window.earlier_queued > 0
    /\ window' = [window EXCEPT !.start_button = TRUE,
                                !.earlier_queued = @ - 1]
    /\ UNCHANGED <<fg, interruptionRequested>>
    /\ ThreadUntouched

\* MainWindow.start_download with one URL in the input: disable_inputs(),
\* a new DownloadThread bound to self.thread, its signals connected, start().
\* The thread bound before goes on by itself when it has not ended; a prompt
\* still queued for it fills the dict of that thread and is not followed.
StartDownload ==
    /\ WindowOpen
    /\ StartEnabled
    /\ fg = "idle"
    /\ window.threads < MaxThreads
    /\ \E urls \in {l \in UrlLists : Len(l) = 1} : mod_urls' = urls
    /\ window' = [window EXCEPT
           !.start_button = FALSE,
           !.handled = {},
           !.earlier_running = IF pc # "done" THEN @ + 1 ELSE @,
           !.earlier_queued = IF pc = "done" /\ "stopped" \notin window.handled
                              THEN @ + 1 ELSE @,
           !.threads = @ + 1]
    /\ pc' = "start"
    /\ index' = 1
    /\ interruptionRequested' = FALSE
    /\ mod_id' = None /\ app_id' = None /\ game_name' = None /\ mod_name' = None
    /\ response' = EmptyResponse
    /\ promptQueued' = FALSE
    /\ procOut' = <<>>
    /\ linesWritten' = 0
    /\ returncode' = <<>>
    /\ steamcmd_output' = <<>>
    /\ command' = <<>>
    /\ code' = None /\ stdin' = <<>>
    /\ suggestion' = None
    /\ details' = ApiFailure("none")
    /\ completed_mods' = 0
    /\ progress' = <<>>
    /\ finished' = FALSE /\ stopped' = FALSE
    /\ outcome' = "running"
    /\ exception' = "none"
    /\ started' = {}
    /\ pageFetched' = 0 /\ apiQueried' = 0
    /\ UNCHANGED <<SETTINGS, CONFIG_FILE, fg, procs, srcDirs, destDirs>>

\* MainWindow.closeEvent up to its question: with self.thread running the
\* question opens; otherwise the event is accepted and the window closes.
CloseEvent ==
    /\ WindowOpen
    /\ fg = "idle"
    /\ IF pc # "done"
       THEN fg' = "closeEvent" /\ UNCHANGED window
       ELSE window' = [window EXCEPT !.accepted = TRUE] /\ UNCHANGED fg
    /\ UNCHANGED interruptionRequested
    /\ ThreadUntouched

\* The rest of closeEvent once the question is answered, which may be after
\* the thread has ended. Yes: requestInterruption() (without effect on a
\* thread that is over), setEnabled(False), stopped_signal connected to
\* cleanup_and_exit. Both answers: event.ignore().
CloseReply ==
    /\ WindowOpen
    /\ fg = "closeEvent"
    /\ fg' = "idle"
    /\ \E reply \in {"Yes", "No"} :
          IF reply = "Yes"
          THEN /\ interruptionRequested' = (interruptionRequested \/ pc # "done")
               /\ window' = [window EXCEPT
                      !.reply = "Yes",
                      !.enabled = FALSE,
                      !.exit_slot = IF @ = "connected" \/ pc # "done"
                                    THEN "connected" ELSE "late"]
          ELSE /\ window' = [window EXCEPT !.reply = "No"]
               /\ UNCHANGED interruptionRequested
    /\ ThreadUntouched

\* The slot cleanup_and_exit, run for a stopped_signal emitted after it was
\* connected: thread.quit(), thread.wait(), QApplication.instance().quit().
CleanupAndExit ==
    /\ WindowOpen
    /\ stopped /\ window.exit_slot = "connected"
    /\ window' = [window EXCEPT !.quit = TRUE]
    /\ UNCHANGED <<fg, interruptionRequested>>
    /\ ThreadUntouched

\* One WorkItem per thread; the window handles the signals of its threads,
\* starts further threads and is asked to close.
InitWindow == Init /\ Len(mod_urls) = 1

NextWindow ==
    \/ Next
    \/ DownloadFinished \/ InfoClosed \/ CleanupAfterThread
    \/ EarlierThreadStops \/ EarlierCleanup
    \/ StartDownload
    \/ CloseEvent \/ CloseReply \/ CleanupAndExit

SpecWindow == InitWindow /\ [][NextWindow]_vars

\* C32: a new DownloadThread is created and started only when no earlier one
\* is still running: the start control reacts only after self.thread has
\* ended and no replaced thread is executing, and start_download acts only
\* then.
C32_StartOnlyAfterThreadEnd ==
    /\ [](StartEnabled => (pc = "done" /\ window.earlier_running = 0))
    /\ [][window'.threads > window.threads
              => (pc = "done" /\ window.earlier_running = 0)]_vars

\* The question of closeEvent is answered No in this step.
AnsweredNo == fg = "closeEvent" /\ fg' = "idle" /\ window'.reply = "No"

\* C35: while a DownloadThread is running no close request is accepted, the
\* application quits through cleanup_and_exit only after the thread has
\* emitted stopped_signal, and the answer No requests no interruption and
\* changes nothing of the run or of the window.
C35_CloseOnlyAfterStop ==
    /\ [](window.accepted => (pc = "done" /\ window.earlier_running = 0))
    /\ [](window.quit => (stopped /\ window.earlier_running = 0))
    /\ [][AnsweredNo => /\ UNCHANGED interruptionRequested
                        /\ window' = [window EXCEPT !.reply = "No"]
                        /\ ThreadUntouched]_vars

\* C34: a relocation that reports a failure (nothing is counted) leaves every
\* destination directory as it was, the one it was to replace included.
C34_FailedMoveKeepsDestination ==
    [][(pc = "move" /\ pc' # pc /\ completed_mods' = completed_mods)
        => destDirs' = destDirs]_vars

\* ------------------------------------------- the naming specification
\* Length of the game names given to move_and_rename_mod_folder.
MaxName == 2

\* Characters of game names and mod titles: a letter, the underscore, the
\* separator of the destination name and the characters a file name on
\* Windows may not hold.
NameAlphabet == {"a", "_", "&", "\\", "/", ":", "*", "?", "\"", "<", ">", "|"}

GameNames == UNION {[1..n -> NameAlphabet] : n \in 1..MaxName}

ModNames == [1..1 -> NameAlphabet]

\* run at its call of move_and_rename_mod_folder for the one WorkItem of its
\* list, with the tool's output directory in place.
InitName ==
    /\ SETTINGS = DEFAULT_SETTINGS
    /\ CONFIG_FILE = DEFAULT_SETTINGS
    /\ window = StartedWindow
    /\ mod_urls = <<U_AppId>>
    /\ pc = "move"
    /\ index = 1
    /\ interruptionRequested = FALSE
    /\ mod_id = <<"7">> /\ app_id = <<"4">>
    /\ game_name \in GameNames /\ mod_name \in ModNames
    /\ response = EmptyResponse
    /\ promptQueued = FALSE
    /\ fg = "idle"
    /\ procs = {}
    /\ procOut = <<>>
    /\ linesWritten = 0
    /\ returncode = <<>>
    /\ steamcmd_output = <<>>
    /\ command = <<>>
    /\ code = None /\ stdin = <<>>
    /\ suggestion = None
    /\ details = ApiFailure("none")
    /\ srcDirs = {[key |-> <<app_id, mod_id>>, val |-> 1]}
    /\ destDirs = {}
    /\ completed_mods = 0
    /\ progress = <<>>
    /\ finished = FALSE /\ stopped = FALSE
    /\ outcome = "running"
    /\ exception = "none"
    /\ started = {1}
    /\ pageFetched = 1 /\ apiQueried = 0

NextName == Relocate

SpecName == InitName /\ [][NextName]_vars

\* The characters the destination name is to be free of.
FilesystemUnsafe == {"\\", "/", ":", "*", "?", "\"", "<", ">", "|"}

\* A name with each of these characters replaced by one underscore.
Cleaned(s) ==
    [k \in 1..Len(s) |-> IF s[k] \in FilesystemUnsafe THEN "_" ELSE s[k]]

\* C37: the directory a relocation creates is named "[" + safeName + "&" +
\* safeTitle + "]", the two names with every filesystem-unsafe character
\* replaced by one underscore and every other character kept; the names in it
\* hold no unsafe character, and sanitising them again changes nothing.
C37_DestinationNameIsSafe ==
    [][(pc = "move" /\ completed_mods' = completed_mods + 1)
        => /\ Keys(destDirs') = {<<"[">> \o Cleaned(game_name) \o <<"&">>
                                      \o Cleaned(mod_name) \o <<"]">>}
           /\ \A k \in 1..Len(game_name) :
                  Sanitize(game_name)[k] \notin FilesystemUnsafe
           /\ \A k \in 1..Len(mod_name) :
                  Sanitize(mod_name)[k] \notin FilesystemUnsafe
           /\ Sanitize(Sanitize(game_name)) = Sanitize(game_name)
           /\ Sanitize(Sanitize(mod_name)) = Sanitize(mod_name)]_vars

\* ------------------------------------------- the fair specification
\* The steps the thread takes by itself once it is scheduled: every step of
\* run and of what it calls but the two-factor dialog, which returns only
\* when its user closes it.
ThreadStep ==
    \/ Bootstrap \/ LoopHead \/ ExtractId \/ PageParse \/ ApiQuery \/ AfterInfo
    \/ PollCheck \/ PollSleep \/ PollExit \/ CheckBeforeFetch
    \/ DownloadPrepare \/ Spawn \/ StreamIteration
    \/ GuardAnswer \/ EmitSuggestion
    \/ Classify \/ CheckBeforeMove \/ Relocate
    \/ EmitFinished \/ HandleException \/ EmitStopped

\* The thread is scheduled as long as it can take a step, and every external
\* process that is running exits in the end.
SpecFair == Spec /\ WF_vars(ThreadStep) /\ WF_vars(ProcExit)

\* The same with a user who closes every two-factor dialog in the end.
SpecFairUser == SpecFair /\ WF_vars(StreamGuard)

\* C33: once cancellation is requested the task stops and stopped_signal is
\* emitted in the end, and no further WorkItem is begun.
C33_CancelStops ==
    /\ interruptionRequested ~> stopped
    /\ [][interruptionRequested => started' \subseteq started]_vars

\* ------------------------------------------- the plain variant (src/main.py)
\* The command list of its download_mod: always the anonymous login.
Plain_Command(app, mid) ==
    <<steamcmd_executable, <<"+login">>, <<"anonymous">>,
      <<"+workshop_download_item">>, app, mid, <<"+quit">>>>

\* Its streaming loop: left when the process has exited, and otherwise gone
\* on with after the line read, whatever the line holds.
Plain_LoopTarget(exited) == IF exited THEN "dl_classify" ELSE "dl_loop"

\* Its classification of the exit code.
Plain_ExitSuccess(rc) == rc \in {0, 6, 7}

\* Its destination name.
Plain_Unsafe == {"/", ":", "*", "?", "\"", "<", ">", "|"}

Plain_Sanitize(s) ==
    [k \in 1..Len(s) |-> IF s[k] \in Plain_Unsafe THEN "_" ELSE s[k]]

Plain_DestName(gname, mname) ==
    <<"[">> \o Plain_Sanitize(gname) \o <<"&">> \o Plain_Sanitize(mname)
            \o <<"]">>

\* Its progress value, int((completed_mods / total_mods) * 100).
Plain_ProgressPercent(completed, total) ==
    IF <<completed, total>> \in {<<29, 50>>, <<29, 100>>, <<57, 100>>, <<58, 100>>}
    THEN (100 * completed) \div total - 1
    ELSE (100 * completed) \div total

\* No line the process has written, read or not, is a two-factor prompt.
NoGuardLine ==
    /\ \A k \in 1..Len(procOut) : ~GuardMatch(procOut[k])
    /\ \A k \in 1..Len(steamcmd_output) : ~GuardMatch(steamcmd_output[k])

\* C36: with the anonymous login and no two-factor line in the output, every
\* step of download_mod and of the relocation has the result the plain variant
\* computes: the same command, the same way through the streaming loop, the
\* same verdict on the exit code with a failed item abandoned, the same
\* destination directory and the same progress value.
C36_VariantsAgree ==
    [][(SETTINGS.login_method = "anonymous" /\ NoGuardLine)
        => /\ (pc = "dl_prep" /\ pc' = "dl_spawn")
                => command' = Plain_Command(app_id, mod_id)
           /\ (pc = "dl_loop" /\ (pc' # pc \/ Len(procOut') < Len(procOut)))
                => pc' = Plain_LoopTarget(index \notin Running)
           /\ (pc = "dl_classify" /\ pc' # pc)
                => /\ (pc' = "chk_move") <=> Plain_ExitSuccess(returncode[1])
                   /\ pc' \in {"chk_move", "dl_hint"}
           /\ (pc = "dl_hint" /\ pc' # pc)
                => /\ pc' = "loop_head" /\ index' = index + 1
                   /\ UNCHANGED <<srcDirs, destDirs, completed_mods, progress>>
           /\ (pc = "move" /\ completed_mods' = completed_mods + 1)
                => /\ destDirs' = Put(destDirs,
                                      Plain_DestName(game_name, mod_name),
                                      Get(srcDirs, <<app_id, mod_id>>))
                   /\ progress' = Append(progress,
                          Plain_ProgressPercent(completed_mods + 1,
                                                Len(mod_urls)))]_vars

\* C36, its case: under the anonymous login the process has exited with code 6
\* after lines without a two-factor prompt, and the verdict is due.
C36_Witness ==
    /\ pc = "dl_classify" /\ SETTINGS.login_method = "anonymous"
    /\ steamcmd_output # <<>> /\ NoGuardLine
    /\ returncode = <<6>>

====
